---- MODULE Spec2Model ----
(***************************************************************************)
(* State-machine model of src/power_scheduler.py (class PowerScheduler).   *)
(*                                                                         *)
(* Threads: the Tk UI thread (handlers start_timer, cancel_timer,          *)
(* on_close, the callbacks queued with root.after), one run_timer thread   *)
(* per successful start_timer, and the tray icon's thread (quit_app).      *)
(* A UI handler runs to completion on the UI thread.                       *)
(* The messageboxes are modal: the boxes of start_timer are its            *)
(* last statement before returning, so the handler is one step; the box    *)
(* of cancel_timer sits between its two assignments and reset_ui, so       *)
(* cancel_timer is two steps, and while the box is open the event loop     *)
(* still runs queued callbacks and the timer threads still run.            *)
(* A run_timer thread reads the shared fields cancel_flag and target_time  *)
(* at separate moments, so each read is a step of its own.                 *)
(*                                                                         *)
(* start_timer and cancel_timer are modelled as the methods they are:      *)
(* they can be called whenever the UI thread is free, whatever the state   *)
(* of the two buttons.                                                     *)
(*                                                                         *)
(* Time is the wall clock in whole seconds since midnight of day 0.        *)
(* Text is a sequence of one-character strings.                            *)
(***************************************************************************)
EXTENDS Integers, Sequences, FiniteSets, TLC

VARIABLES
    now,                \* datetime.now(), whole seconds
    is_running,         \* self.is_running
    cancel_flag,        \* self.cancel_flag
    target_time,        \* self.target_time (None or a time)
    action_var,         \* self.action_var (radio buttons)
    status_label,       \* self.status_label text
    countdown_label,    \* self.countdown_label text
    target_time_label,  \* self.target_time_label text
    start_button,       \* state of self.start_button
    cancel_button,      \* state of self.cancel_button
    threads,            \* the run_timer threads ever started, in order
    after_queue,        \* callbacks queued by root.after(0, ...), FIFO
    ui,                 \* position of the UI thread
    os_calls,           \* commands handed to os.system, in order
    window,             \* state of the root window: "normal" or "withdrawn"
    icon,               \* self.icon: the tray icon has been created
    proc,               \* the process: "running", "quitting" (quit_app has
                        \* begun on the tray thread) or "exited"
    schedules,          \* history: one record per successful start_timer
    lastCall            \* history: the last handler invocation and its outcome

vars == <<now, is_running, cancel_flag, target_time, action_var, status_label,
          countdown_label, target_time_label, start_button, cancel_button,
          threads, after_queue, ui, os_calls, window, icon, proc, schedules,
          lastCall>>

\* the scheduler's own fields and widgets (everything but clock and history)
progVars == <<is_running, cancel_flag, target_time, action_var, status_label,
              countdown_label, target_time_label, start_button, cancel_button,
              threads, after_queue, ui, os_calls, window, icon, proc>>

\* the window, the tray icon and the process
trayVars == <<window, icon, proc>>

----------------------------------------------------------------------------
(* Bounds of the model *)

MaxStarts == 2        \* successful start_timer calls explored
MaxElapsed == 1       \* seconds the clock advances in Spec

----------------------------------------------------------------------------
(* Constants of the program *)

None == -1                    \* self.target_time = None
SecondsPerHour == 3600
SecondsPerMinute == 60
SecondsPerDay == 86400        \* timedelta(days=1)
MaxHour == 23                 \* datetime.replace(hour=...) accepts 0..23
MaxMinute == 59               \* datetime.replace(minute=...) accepts 0..59
SleepSeconds == 1             \* time.sleep(1)

Actions == {"hibernate", "sleep", "shutdown"}

\* tk.StringVar(value="hibernate")
InitialAction == "hibernate"

\* get_action_name: the display name of an action (names transliterated)
get_action_name(a) ==
    CASE a = "hibernate" -> "xiumian"
      [] a = "sleep"     -> "shuimian"
      [] a = "shutdown"  -> "guanji"
      [] OTHER           -> "caozuo"

\* the command execute_action hands to os.system for an action
Command(a) ==
    CASE a = "hibernate" -> "shutdown /h"
      [] a = "sleep"     -> "rundll32.exe powrprof.dll,SetSuspendState 0,1,0"
      [] a = "shutdown"  -> "shutdown /s /t 0"
      [] OTHER           -> "none"

----------------------------------------------------------------------------
(* int(text): Python's conversion of a field's text *)

DigitChars == <<"0", "1", "2", "3", "4", "5", "6", "7", "8", "9">>

IsDigit(c) == \E i \in 1..10 : DigitChars[i] = c

DigitVal(c) == (CHOOSE i \in 1..10 : DigitChars[i] = c) - 1

RECURSIVE LStrip(_)
LStrip(t) == IF t # <<>> /\ Head(t) = " " THEN LStrip(Tail(t)) ELSE t

RECURSIVE RStrip(_)
RStrip(t) == IF t # <<>> /\ t[Len(t)] = " " THEN RStrip(SubSeq(t, 1, Len(t) - 1)) ELSE t

\* digits, with single underscores allowed between digits
DigitsOk(t) ==
    /\ t # <<>>
    /\ IsDigit(t[1])
    /\ IsDigit(t[Len(t)])
    /\ \A i \in 1..Len(t) : IsDigit(t[i]) \/ t[i] = "_"
    /\ \A i \in 1..(Len(t) - 1) : ~(t[i] = "_" /\ t[i + 1] = "_")

RECURSIVE DigitsValue(_, _)
DigitsValue(t, acc) ==
    IF t = <<>> THEN acc
    ELSE IF Head(t) = "_" THEN DigitsValue(Tail(t), acc)
    ELSE DigitsValue(Tail(t), 10 * acc + DigitVal(Head(t)))

\* int(text): [ok |-> TRUE, val |-> n], or [ok |-> FALSE] for ValueError
ParseInt(text) ==
    LET s == RStrip(LStrip(text))
        signed == s # <<>> /\ Head(s) \in {"+", "-"}
        body == IF signed THEN Tail(s) ELSE s
    IN  IF DigitsOk(body)
        THEN [ok |-> TRUE,
              val |-> IF signed /\ Head(s) = "-" THEN 0 - DigitsValue(body, 0)
                      ELSE DigitsValue(body, 0)]
        ELSE [ok |-> FALSE, val |-> 0]

\* str(n) for n >= 0: the text a spinbox shows for a number
RECURSIVE Str(_)
Str(n) == IF n < 10 THEN <<DigitChars[n + 1]>> ELSE Str(n \div 10) \o <<DigitChars[(n % 10) + 1]>>

----------------------------------------------------------------------------
(* Texts the program builds *)

\* divmod(total, 3600) then divmod(remainder, 60): <<hours, minutes, seconds>>
SplitHMS(total) ==
    <<total \div SecondsPerHour,
      (total % SecondsPerHour) \div SecondsPerMinute,
      (total % SecondsPerHour) % SecondsPerMinute>>

\* strftime('%Y-%m-%d %H:%M:%S'): <<day, hour, minute, second>>
FormatTime(t) == <<t \div SecondsPerDay>> \o SplitHMS(t % SecondsPerDay)

\* the countdown text run_timer builds from remaining = target_time - now
CountdownText(remaining) == <<"remaining">> \o SplitHMS(remaining)

\* mode_text of countdown mode: the parts that are > 0, then "hou"
CountdownModeText(hours, minutes, seconds) ==
    (IF hours > 0 THEN <<<<hours, "xiaoshi">>>> ELSE <<>>)
    \o (IF minutes > 0 THEN <<<<minutes, "fenzhong">>>> ELSE <<>>)
    \o (IF seconds > 0 THEN <<<<seconds, "miao">>>> ELSE <<>>)
    \o <<"hou">>

StatusIdle == <<"weiqidong">>
StatusStarted(mode_text, action_name) == <<"yiqidong", mode_text, action_name>>
NoText == <<>>

----------------------------------------------------------------------------
(* start_timer: the computation of the target *)

\* total_seconds = hours * 3600 + minutes * 60 + seconds
TotalSeconds(hours, minutes, seconds) ==
    hours * SecondsPerHour + minutes * SecondsPerMinute + seconds

\* the countdown test with < for <=
CountdownRejectedMut(total_seconds) == total_seconds < 0

\* the test that rejects a countdown
CountdownRejected(total_seconds) == total_seconds <= 0

\* datetime.replace raises ValueError outside these ranges
ReplaceOk(hour, minute) == hour \in 0..MaxHour /\ minute \in 0..MaxMinute

\* now.replace(hour=h, minute=m, second=0, microsecond=0)
ReplaceTime(n, hour, minute) ==
    (n - (n % SecondsPerDay)) + hour * SecondsPerHour + minute * SecondsPerMinute

\* the next-day test with < for <=
TargetPassedMut(target, n) == target < n

\* the test that moves a scheduled target to the next day
TargetPassed(target, n) == target <= n

\* scheduled mode without the added day (line 396 left out)
ScheduledTargetMut(n, hour, minute) ==
    LET t == ReplaceTime(n, hour, minute)
    IN  IF TargetPassed(t, n) THEN <<t, "mingtian">>
        ELSE <<t, "jintian">>

\* scheduled mode: <<target_time, day_text>>
ScheduledTarget(n, hour, minute) ==
    LET t == ReplaceTime(n, hour, minute)
    IN  IF TargetPassed(t, n) THEN <<t + SecondsPerDay, "mingtian">>
        ELSE <<t, "jintian">>

\* A request: what the mode radio button and the five spinboxes hold when
\* start_timer reads them.
Request(mode, hours, minutes, seconds, sh, sm) ==
    [mode |-> mode, hours |-> hours, minutes |-> minutes, seconds |-> seconds,
     scheduled_hours |-> sh, scheduled_minutes |-> sm]

\* lines 365-417 of start_timer for request r at time n:
\* [result, target, mode_text]; result is "ok", "invalid_time" (the error box
\* of total_seconds <= 0) or "value_error" (the except ValueError box)
StartOutcome(r, n) ==
    LET fail(kind) == [result |-> kind, target |-> None, mode_text |-> NoText]
    IN  IF r.mode = "countdown"
        THEN LET h == ParseInt(r.hours)
                 m == ParseInt(r.minutes)
                 s == ParseInt(r.seconds)
                 total == TotalSeconds(h.val, m.val, s.val)
             IN  IF ~(h.ok /\ m.ok /\ s.ok) THEN fail("value_error")
                 ELSE IF CountdownRejected(total) THEN fail("invalid_time")
                 ELSE [result |-> "ok", target |-> n + total,
                       mode_text |-> CountdownModeText(h.val, m.val, s.val)]
        ELSE LET h == ParseInt(r.scheduled_hours)
                 m == ParseInt(r.scheduled_minutes)
             IN  IF ~(h.ok /\ m.ok) THEN fail("value_error")
                 ELSE IF ~ReplaceOk(h.val, m.val) THEN fail("value_error")
                 ELSE LET st == ScheduledTarget(n, h.val, m.val)
                      IN  [result |-> "ok", target |-> st[1],
                           mode_text |-> <<st[2], h.val, m.val>>]

----------------------------------------------------------------------------
(* The state machine *)

\* text of a field, as typed or as a spinbox shows it
T0 == Str(0)
T1 == Str(1)

NoRequest == Request("none", NoText, NoText, NoText, NoText, NoText)

\* the clock reading at which Spec starts: 23:59:59 of day 0
StartNow == MaxHour * SecondsPerHour + MaxMinute * SecondsPerMinute + 59

\* the requests start_timer is called with in Spec
Requests ==
    { Request("countdown", T0, T0, T1, T0, T0),
      Request("countdown", T0, T0, T0, T0, T0),
      Request("scheduled", T0, T0, T0, T0, T0) }

Call(op, r, result) ==
    [op |-> op, request |-> r, result |-> result]

\* __init__ and setup_ui, at clock reading n
InitAt(n) ==
    /\ now = n
    /\ is_running = FALSE
    /\ cancel_flag = FALSE
    /\ target_time = None
    /\ action_var = InitialAction
    /\ status_label = StatusIdle
    /\ countdown_label = NoText
    /\ target_time_label = NoText
    /\ start_button = "normal"
    /\ cancel_button = "disabled"
    /\ threads = <<>>
    /\ after_queue = <<>>
    /\ ui = "idle"
    /\ os_calls = <<>>
    /\ window = "normal"
    /\ icon = FALSE
    /\ proc = "running"
    /\ schedules = <<>>
    /\ lastCall = [op |-> "none", request |-> NoRequest, result |-> "none"]

Init == InitAt(StartNow)

\* the wall clock advances by one second
Tick ==
    /\ proc # "exited"
    /\ now < StartNow + MaxElapsed
    /\ now' = now + 1
    /\ UNCHANGED <<progVars, schedules, lastCall>>

\* the user picks another radio button of the action frame; the model
\* follows the selection away from the initial one, not further changes
select_action(a) ==
    /\ proc = "running"
    /\ ui = "idle"
    /\ action_var = InitialAction
    /\ a # action_var
    /\ action_var' = a
    /\ UNCHANGED <<now, is_running, cancel_flag, target_time, status_label,
                   countdown_label, target_time_label, start_button,
                   cancel_button, threads, after_queue, ui, os_calls,
                   trayVars, schedules, lastCall>>

\* start_timer without its guard
StartBlockedMut == FALSE

\* the guard of start_timer
StartBlocked == is_running

\* start_timer, called with the fields holding request r
start_timer(r) ==
    /\ proc = "running"
    /\ ui = "idle"
    /\ IF StartBlocked
       THEN \* showwarning, return
            /\ lastCall' = Call("start_timer", r, "already_running")
            /\ UNCHANGED <<now, progVars, schedules>>
       ELSE LET o == StartOutcome(r, now)
            IN  IF o.result # "ok"
                THEN \* showerror, return
                     /\ lastCall' = Call("start_timer", r, o.result)
                     /\ UNCHANGED <<now, progVars, schedules>>
                ELSE /\ Len(threads) < MaxStarts
                     /\ target_time' = o.target
                     /\ is_running' = TRUE
                     /\ cancel_flag' = FALSE
                     /\ start_button' = "disabled"
                     /\ cancel_button' = "normal"
                     /\ status_label' = StatusStarted(o.mode_text, get_action_name(action_var))
                     /\ target_time_label' = <<"mubiao">> \o FormatTime(o.target)
                     /\ threads' = Append(threads,
                            [pc |-> "while_cancel", wake |-> 0, resumed |-> FALSE])
                     /\ schedules' = Append(schedules,
                            [action |-> action_var, cancelled |-> FALSE])
                     /\ lastCall' = Call("start_timer", r, "started")
                     /\ UNCHANGED <<now, action_var, countdown_label, after_queue,
                                    ui, os_calls, trayVars>>

\* reset_ui: its assignments
reset_ui ==
    /\ is_running' = FALSE
    /\ cancel_flag' = FALSE
    /\ target_time' = None
    /\ status_label' = StatusIdle
    /\ countdown_label' = NoText
    /\ target_time_label' = NoText
    /\ start_button' = "normal"
    /\ cancel_button' = "disabled"

\* cancel_timer without its guard
CancelAllowedMut == TRUE

\* the guard of cancel_timer
CancelAllowed == is_running

\* cancel_timer up to its messagebox: the two assignments, then the modal
\* box opens and the handler waits in it
cancel_timer ==
    /\ proc = "running"
    /\ ui = "idle"
    /\ IF CancelAllowed
       THEN /\ cancel_flag' = TRUE
            /\ is_running' = FALSE
            /\ ui' = "cancel_box"
            /\ schedules' = [i \in 1..Len(schedules) |->
                                IF i = Len(schedules)
                                THEN [schedules[i] EXCEPT !.cancelled = TRUE]
                                ELSE schedules[i]]
            /\ lastCall' = Call("cancel_timer", NoRequest, "cancelled")
            /\ UNCHANGED <<now, target_time, action_var, status_label,
                           countdown_label, target_time_label, start_button,
                           cancel_button, threads, after_queue, os_calls,
                           trayVars>>
       ELSE /\ lastCall' = Call("cancel_timer", NoRequest, "not_running")
            /\ UNCHANGED <<now, progVars, schedules>>

\* cancel_timer after its messagebox is closed: reset_ui()
cancel_timer_return ==
    /\ proc # "exited"
    /\ ui = "cancel_box"
    /\ reset_ui
    /\ ui' = "idle"
    /\ UNCHANGED <<now, action_var, threads, after_queue, os_calls, trayVars,
                   schedules, lastCall>>

----------------------------------------------------------------------------
(* run_timer: one thread per successful start_timer.  Thread t is the one  *)
(* start_timer created for schedule t.  Its record holds its position pc   *)
(* and the time wake before which time.sleep(1) does not return; resumed   *)
(* is history: the thread has found cancel_flag unset in its loop          *)
(* condition after cancel_timer was called on its schedule.                *)

Threads == 1..Len(threads)

Goto(t, pc) == threads' = [threads EXCEPT ![t].pc = pc]

\* root.after(0, fn, arg) called by thread t
Post(fn, arg, t) == after_queue' = Append(after_queue, [fn |-> fn, arg |-> arg, by |-> t])

\* what the loop condition does after reading cancel_flag
AfterCancelRead(flag) == IF flag THEN "after_loop" ELSE "while_time"

\* line 421, first operand: not self.cancel_flag, read on entering the loop
\* and again each time time.sleep(1) has returned, which is not before one
\* second has passed since the call
run_timer_while_cancel(t) ==
    /\ proc # "exited"
    /\ threads[t].pc = "while_cancel"
    /\ now >= threads[t].wake
    /\ threads' = [threads EXCEPT
           ![t].pc = AfterCancelRead(cancel_flag),
           ![t].resumed = @ \/ (schedules[t].cancelled
                                 /\ AfterCancelRead(cancel_flag) = "while_time")]
    /\ UNCHANGED <<now, is_running, cancel_flag, target_time, action_var,
                   status_label, countdown_label, target_time_label,
                   start_button, cancel_button, after_queue, ui, os_calls,
                   trayVars, schedules, lastCall>>

\* line 421, second operand: datetime.now() < self.target_time; comparing
\* with None raises TypeError, which ends the thread
run_timer_while_time(t) ==
    /\ proc # "exited"
    /\ threads[t].pc = "while_time"
    /\ Goto(t, IF target_time = None THEN "crashed"
               ELSE IF now < target_time THEN "body"
               ELSE "after_loop")
    /\ UNCHANGED <<now, is_running, cancel_flag, target_time, action_var,
                   status_label, countdown_label, target_time_label,
                   start_button, cancel_button, after_queue, ui, os_calls,
                   trayVars, schedules, lastCall>>

\* lines 422-432: remaining, the countdown text, root.after(0,
\* self.update_countdown, text), and the call of time.sleep(1)
run_timer_body(t) ==
    /\ proc # "exited"
    /\ threads[t].pc = "body"
    /\ IF target_time = None
       THEN /\ Goto(t, "crashed")
            /\ UNCHANGED after_queue
       ELSE /\ Post("update_countdown", CountdownText(target_time - now), t)
            /\ threads' = [threads EXCEPT ![t] =
                              [@ EXCEPT !.pc = "while_cancel",
                                        !.wake = now + SleepSeconds]]
    /\ UNCHANGED <<now, is_running, cancel_flag, target_time, action_var,
                   status_label, countdown_label, target_time_label,
                   start_button, cancel_button, ui, os_calls, trayVars,
                   schedules, lastCall>>

\* what run_timer queues after its loop, from the cancel_flag it reads
AfterLoopCallback(flag) == IF ~flag THEN "execute_action" ELSE "reset_ui"

\* lines 434-439 with reset_ui called by the thread itself instead of being
\* queued for the UI thread
run_timer_after_loop_direct(t) ==
    /\ proc # "exited"
    /\ threads[t].pc = "after_loop"
    /\ Goto(t, "done")
    /\ IF ~cancel_flag
       THEN /\ Post("execute_action", NoText, t)
            /\ UNCHANGED <<is_running, cancel_flag, target_time, status_label,
                           countdown_label, target_time_label, start_button,
                           cancel_button>>
       ELSE /\ reset_ui
            /\ UNCHANGED after_queue
    /\ UNCHANGED <<now, action_var, ui, os_calls, trayVars, schedules, lastCall>>

\* lines 434-439
run_timer_after_loop(t) ==
    /\ proc # "exited"
    /\ threads[t].pc = "after_loop"
    /\ Post(AfterLoopCallback(cancel_flag), NoText, t)
    /\ Goto(t, "done")
    /\ UNCHANGED <<now, is_running, cancel_flag, target_time, action_var,
                   status_label, countdown_label, target_time_label,
                   start_button, cancel_button, ui, os_calls, trayVars,
                   schedules, lastCall>>

----------------------------------------------------------------------------
(* Callbacks queued with root.after, run by the Tk event loop on the UI    *)
(* thread.  The messagebox of cancel_timer runs the event loop too.        *)

\* the action execute_action runs: the selection at the time of the call
ActionToRun == action_var

\* update_countdown(text)
update_countdown(text) ==
    /\ countdown_label' = text
    /\ UNCHANGED <<is_running, cancel_flag, target_time, status_label,
                   target_time_label, start_button, cancel_button, os_calls>>

\* execute_action, queued by thread t: one os.system call.  The entry
\* records, besides the command, which thread queued the call, how many
\* schedules had been started, whether that thread's schedule had been
\* cancelled and whether quit_app had begun.
execute_action(t) ==
    /\ os_calls' = Append(os_calls,
           [cmd |-> Command(ActionToRun), by |-> t, during |-> Len(schedules),
            cancelled |-> schedules[t].cancelled,
            quit |-> proc = "quitting"])
    /\ UNCHANGED <<is_running, cancel_flag, target_time, status_label,
                   countdown_label, target_time_label, start_button,
                   cancel_button>>

\* the event loop runs the oldest queued callback
RunCallback ==
    /\ proc # "exited"
    /\ ui \in {"idle", "cancel_box"}
    /\ after_queue # <<>>
    /\ LET e == Head(after_queue)
       IN  CASE e.fn = "update_countdown" -> update_countdown(e.arg)
             [] e.fn = "execute_action" -> execute_action(e.by)
             [] e.fn = "reset_ui" -> reset_ui /\ UNCHANGED os_calls
    /\ after_queue' = Tail(after_queue)
    /\ UNCHANGED <<now, action_var, threads, ui, trayVars, schedules, lastCall>>

----------------------------------------------------------------------------
(* The window's close button and the tray icon.  on_close runs on the UI   *)
(* thread; its messagebox is its last statement.  The tray menu's handlers *)
(* run on the thread of icon.run (line 142), concurrently with the UI      *)
(* thread and the run_timer threads.  The periodic update_tray_menu only   *)
(* reads the scheduler's fields to rebuild the menu and is left out.       *)
(* Having chosen quit in the tray menu, the user gives no further command: *)
(* select_action, start_timer, cancel_timer and on_close are called while  *)
(* proc is "running"; what was begun before goes on until the process      *)
(* ends.                                                                   *)

\* on_close ending the program whatever the scheduler's state
CloseHidesMut == FALSE

\* line 69: what on_close tests to hide the window instead of exiting
CloseHides == is_running

\* hide_to_tray: root.withdraw() and create_tray_icon() if there is no icon
hide_to_tray ==
    /\ window' = "withdrawn"
    /\ icon' = TRUE

\* on_close: the WM_DELETE_WINDOW handler.  In a Tk callback sys.exit()
\* leaves mainloop and ends the process, daemon threads included.
on_close ==
    /\ proc = "running"
    /\ ui = "idle"
    /\ IF CloseHides
       THEN /\ hide_to_tray
            /\ UNCHANGED proc
       ELSE /\ proc' = "exited"
            /\ UNCHANGED <<window, icon>>
    /\ UNCHANGED <<now, is_running, cancel_flag, target_time, action_var,
                   status_label, countdown_label, target_time_label,
                   start_button, cancel_button, threads, after_queue, ui,
                   os_calls, schedules, lastCall>>

\* quit_app of the tray menu (lines 96-102 and 181-188), on the tray
\* thread: its two assignments.  The menu exists once the icon does.
quit_app ==
    /\ proc = "running"
    /\ icon
    /\ is_running' = FALSE
    /\ cancel_flag' = TRUE
    /\ proc' = "quitting"
    /\ UNCHANGED <<now, target_time, action_var, status_label, countdown_label,
                   target_time_label, start_button, cancel_button, threads,
                   after_queue, ui, os_calls, window, icon, schedules, lastCall>>

\* quit_app, the rest: icon.stop() and root.quit(); mainloop returns, main
\* returns and the process ends with its daemon threads.  Until then the UI
\* thread and the run_timer threads keep running.
quit_app_exit ==
    /\ proc = "quitting"
    /\ proc' = "exited"
    /\ UNCHANGED <<now, is_running, cancel_flag, target_time, action_var,
                   status_label, countdown_label, target_time_label,
                   start_button, cancel_button, threads, after_queue, ui,
                   os_calls, window, icon, schedules, lastCall>>

----------------------------------------------------------------------------

Next ==
    \/ Tick
    \/ \E a \in Actions : select_action(a)
    \/ \E r \in Requests : start_timer(r)
    \/ cancel_timer
    \/ cancel_timer_return
    \/ \E t \in Threads : run_timer_while_cancel(t)
    \/ \E t \in Threads : run_timer_while_time(t)
    \/ \E t \in Threads : run_timer_body(t)
    \/ \E t \in Threads : run_timer_after_loop(t)
    \/ RunCallback
    \/ on_close
    \/ quit_app
    \/ quit_app_exit

Spec == Init /\ [][Next]_vars

----------------------------------------------------------------------------
(* SpecStart: one call of start_timer on the freshly constructed window,   *)
(* over a wide range of clock readings and field texts.                    *)

\* the text of an integer, as typed
IntText(n) == IF n < 0 THEN <<"-">> \o Str(0 - n) ELSE Str(n)

\* texts that are not plain numbers: empty, a letter, a decimal, a lone
\* sign, padded with spaces, signed, with an underscore
OddTexts ==
    { <<>>, <<"a">>, <<"1", ".", "5">>, <<"-">>, <<" ", "7", " ">>,
      <<"+", "3">>, <<"1", "_", "0">>, <<"_", "1">> }

CountdownTexts == {IntText(n) : n \in {-60, -1, 0, 1, 23, 24, 59, 60}} \cup OddTexts

ScheduledHourTexts == {IntText(n) : n \in -1..25} \cup OddTexts

ScheduledMinuteTexts == {IntText(n) : n \in -1..61} \cup OddTexts

WideRequests ==
    {Request("countdown", h, m, sec, T0, T0) :
        h \in CountdownTexts, m \in CountdownTexts, sec \in CountdownTexts}
    \cup
    {Request("scheduled", T0, T0, T0, h, m) :
        h \in ScheduledHourTexts, m \in ScheduledMinuteTexts}

\* clock readings: hours 0, 10, 23; minutes 0, 30, 59; seconds 0, 1, 59; on
\* day 1
StartTimes ==
    {SecondsPerDay + h * SecondsPerHour + m * SecondsPerMinute + sec :
        h \in {0, 10, 23}, m \in {0, 30, 59}, sec \in {0, 1, 59}}

InitStart == \E n \in StartTimes : InitAt(n)

\* the first call of start_timer
StartAny ==
    /\ lastCall.op = "none"
    /\ \E r \in WideRequests : start_timer(r)

SpecStart == InitStart /\ [][StartAny]_vars

----------------------------------------------------------------------------
(* Properties of start_timer under SpecStart *)

\* the number a field's text stands for, and whether it stands for one
FieldOk(text) == ParseInt(text).ok
FieldVal(text) == ParseInt(text).val

\* d = hours*3600 + minutes*60 + seconds of a countdown request
Duration(r) == FieldVal(r.hours) * 3600 + FieldVal(r.minutes) * 60 + FieldVal(r.seconds)

NumericCountdown(r) ==
    /\ r.mode = "countdown"
    /\ FieldOk(r.hours) /\ FieldOk(r.minutes) /\ FieldOk(r.seconds)

\* C7: a countdown request whose duration d is <= 0 is answered with the
\* error box and changes nothing: is_running, cancel_flag, target_time, the
\* buttons, the labels and the set of timer threads stay as they are.
C7_NonPositiveCountdown ==
    [][LET r == lastCall'.request
       IN  (~is_running /\ start_timer(r) /\ NumericCountdown(r) /\ Duration(r) <= 0)
           => /\ lastCall'.result = "invalid_time"
              /\ UNCHANGED progVars]_vars

\* C7 witness: start_timer was called with a negative duration and the
\* scheduler is idle with no timer thread.
C7_Witness ==
    /\ lastCall.op = "start_timer"
    /\ lastCall.result = "invalid_time"
    /\ NumericCountdown(lastCall.request)
    /\ Duration(lastCall.request) < 0
    /\ ~is_running
    /\ threads = <<>>

\* the fields of the request's mode are numbers within the spinbox ranges
FieldsInRange(r) ==
    IF r.mode = "countdown"
    THEN /\ FieldOk(r.hours) /\ FieldVal(r.hours) \in 0..23
         /\ FieldOk(r.minutes) /\ FieldVal(r.minutes) \in 0..59
         /\ FieldOk(r.seconds) /\ FieldVal(r.seconds) \in 0..59
    ELSE /\ FieldOk(r.scheduled_hours) /\ FieldVal(r.scheduled_hours) \in 0..23
         /\ FieldOk(r.scheduled_minutes) /\ FieldVal(r.scheduled_minutes) \in 0..59

\* C8 (as claimed): start_timer called with a field that is not a number or
\* is out of range shows an error box and creates no schedule: the scheduler
\* stays idle, target_time stays None and no timer thread is started.
C8_OutOfRangeRejected ==
    (lastCall.op = "start_timer" /\ ~FieldsInRange(lastCall.request))
    => /\ lastCall.result \in {"value_error", "invalid_time"}
       /\ ~is_running
       /\ target_time = None
       /\ threads = <<>>

\* h:m:00 on the day of clock reading n
TodayAt(n, h, m) == (n \div 86400) * 86400 + h * 3600 + m * 60

\* C9: in scheduled mode the target is h:m:00 of the current day if that
\* instant is strictly later than the current time, and h:m:00 of the
\* following day otherwise.
C9_ScheduledTarget ==
    (is_running /\ lastCall.result = "started" /\ lastCall.request.mode = "scheduled")
    => LET today == TodayAt(now, FieldVal(lastCall.request.scheduled_hours),
                                 FieldVal(lastCall.request.scheduled_minutes))
       IN  target_time = IF today > now THEN today ELSE today + 86400

\* C9 witness: the current time is 23:30:00 (of day 1) and 23:00 is
\* requested; the target is 23:00:00 of the following day.
C9_Witness ==
    /\ now = 86400 + 23 * 3600 + 30 * 60
    /\ is_running
    /\ lastCall.result = "started"
    /\ lastCall.request.mode = "scheduled"
    /\ FieldVal(lastCall.request.scheduled_hours) = 23
    /\ FieldVal(lastCall.request.scheduled_minutes) = 0
    /\ target_time = 2 * 86400 + 23 * 3600

\* C14: after every successful start_timer, in both modes, target_time is
\* strictly later than the time the call read, and in scheduled mode at
\* most 24 hours later.
C14_TargetInFuture ==
    (lastCall.op = "start_timer" /\ lastCall.result = "started")
    => /\ is_running
       /\ target_time # None
       /\ target_time > now
       /\ lastCall.request.mode = "scheduled" => target_time - now <= 86400

\* C14 witness: a scheduled start at h:m:00 sharp for that same h:m; the
\* target is exactly 24 hours later.
C14_Witness ==
    /\ lastCall.op = "start_timer"
    /\ lastCall.result = "started"
    /\ lastCall.request.mode = "scheduled"
    /\ is_running
    /\ target_time = now + 86400

----------------------------------------------------------------------------
(* Properties of the scheduler under Spec *)

Schedules == 1..Len(schedules)

\* run_timer threads that have not ended
Alive(t) == threads[t].pc \notin {"done", "crashed"}

\* the os.system calls made while schedule s was the latest one started
CallsDuring(s) == {i \in 1..Len(os_calls) : os_calls[i].during = s}

\* C1 (as claimed): a schedule on which cancel_timer was never called gets
\* its power action exactly once; here the safety half, never a second time.
C1_AtMostOneDispatch ==
    \A s \in Schedules :
        ~schedules[s].cancelled => Cardinality(CallsDuring(s)) <= 1

\* C2 (as claimed): once cancel_timer has been called on a running schedule,
\* no power action queued by that schedule's timer thread is executed.
C2_CancelWins ==
    \A i \in 1..Len(os_calls) : ~os_calls[i].cancelled

\* C3 (as claimed): the timer thread of a cancelled schedule does not go on
\* counting: once cancel_timer has been called on its schedule, the thread
\* never again passes its loop condition into the loop body.
C3_CancelledThreadStops ==
    \A t \in Threads : ~(threads[t].resumed /\ threads[t].pc = "body")

\* C4 (as claimed): at most one timer thread is alive and counting towards a
\* dispatch.  A thread counts towards a dispatch while it is alive and either
\* its schedule was not cancelled or it has passed its loop condition after
\* the cancellation.
C4_AtMostOneTimer ==
    Cardinality({t \in Threads :
        Alive(t) /\ (~schedules[t].cancelled \/ threads[t].resumed)}) <= 1

\* C5: start_timer called while a schedule is running shows the warning and
\* changes nothing: is_running, cancel_flag, target_time, the set of timer
\* threads and every widget stay as they are.
C5_StartWhileRunning ==
    [][\A r \in Requests :
          (is_running /\ start_timer(r))
          => /\ lastCall'.result = "already_running"
             /\ UNCHANGED progVars]_vars

\* C5 witness: start_timer was called while a schedule was running and its
\* timer thread was alive.
C5_Witness ==
    /\ lastCall.op = "start_timer"
    /\ lastCall.result = "already_running"
    /\ is_running
    /\ \E t \in Threads : Alive(t)

\* C6: cancel_timer called while no schedule is running changes nothing:
\* is_running, cancel_flag, target_time, the labels, the buttons, the timer
\* threads and the queued callbacks stay as they are.
C6_CancelWhileIdle ==
    [][(~is_running /\ cancel_timer)
       => /\ lastCall'.result = "not_running"
          /\ UNCHANGED progVars]_vars

\* C6 witness: cancel_timer was called while no schedule was running.
C6_Witness ==
    /\ lastCall.op = "cancel_timer"
    /\ lastCall.result = "not_running"
    /\ ~is_running
    /\ ui = "idle"

\* C10 (as claimed): every command handed to os.system is the command of the
\* action that was selected when the schedule whose timer thread queued the
\* call was started.
C10_ActionOfStart ==
    \A i \in 1..Len(os_calls) :
        os_calls[i].cmd = Command(schedules[os_calls[i].by].action)

\* every run_timer thread has ended, no callback is queued and the UI
\* thread is free: the program takes no further step until the user acts
Quiescent ==
    /\ ui = "idle"
    /\ after_queue = <<>>
    /\ \A t \in Threads : ~Alive(t)

\* C11 (as claimed): after a schedule has expired and its power action has
\* been dispatched, the scheduler returns to Idle: once nothing of the
\* schedule is left to run, is_running is false, target_time is cleared and
\* the start button is enabled.
C11_IdleAfterDispatch ==
    (/\ Quiescent
     /\ \E i \in 1..Len(os_calls) :
            os_calls[i].by = Len(schedules) /\ ~os_calls[i].cancelled)
    => /\ ~is_running
       /\ target_time = None
       /\ start_button = "normal"

\* C12: on_close called while a schedule is running hides the window to the
\* tray and leaves is_running, cancel_flag, target_time, the timer threads
\* and the queued callbacks as they are, and the process goes on; on_close
\* ends the process only when no schedule is running, and then it does.
C12_CloseWhileRunning ==
    [][on_close
       => /\ is_running
             => /\ UNCHANGED <<is_running, cancel_flag, target_time, threads,
                               after_queue, os_calls, proc>>
                /\ window' = "withdrawn"
                /\ icon'
          /\ (proc' = "exited") <=> ~is_running]_vars

\* C12 witness: the window was closed while a schedule was running: it is
\* hidden to the tray, the schedule still runs and its timer thread is
\* alive.
C12_Witness ==
    /\ window = "withdrawn"
    /\ icon
    /\ proc = "running"
    /\ is_running
    /\ target_time # None
    /\ \E t \in Threads : Alive(t)

\* C13 (as claimed): once quit_app of the tray menu has been invoked, no
\* power action is dispatched.
C13_QuitWins ==
    \A i \in 1..Len(os_calls) : ~os_calls[i].quit

\* the whole seconds a countdown text reports
ReportedSeconds(text) ==
    text[2] * SecondsPerHour + text[3] * SecondsPerMinute + text[4]

\* a timer thread queues a countdown text in this step
ReportStep ==
    /\ Len(after_queue') = Len(after_queue) + 1
    /\ after_queue'[Len(after_queue')].fn = "update_countdown"

\* C15 (as claimed): a tick reports remaining = target_time - now only
\* while the schedule is pending: nothing is reported at a time at which
\* now >= target_time, so every reported value is that of a time before the
\* target and is not below 0.
C15_ReportOnlyWhilePending ==
    [][ReportStep
       => /\ now < target_time
          /\ ReportedSeconds(after_queue'[Len(after_queue')].arg) >= 0]_vars

\* a step of a run_timer thread: some thread's record changes and no thread
\* is created
ThreadStep == threads' # threads /\ Len(threads') = Len(threads)

\* the callbacks run_timer queues
TimerCallbacks == {"update_countdown", "execute_action", "reset_ui"}

\* C16: a timer thread never writes the scheduler's or the window's state
\* itself: every step of run_timer leaves is_running, cancel_flag,
\* target_time, the labels, the buttons, the selection and the os.system
\* calls unchanged, and either leaves the callback queue alone or appends
\* one update_countdown, execute_action or reset_ui to it.
C16_ThreadOnlyPosts ==
    [][ThreadStep
       => /\ UNCHANGED <<is_running, cancel_flag, target_time, action_var,
                         status_label, countdown_label, target_time_label,
                         start_button, cancel_button, ui, os_calls, window,
                         icon, proc>>
          /\ \/ UNCHANGED after_queue
             \/ /\ Len(after_queue') = Len(after_queue) + 1
                /\ SubSeq(after_queue', 1, Len(after_queue)) = after_queue
                /\ after_queue'[Len(after_queue')].fn \in TimerCallbacks]_vars

\* C16 witness: the thread of a cancelled schedule has found cancel_flag set
\* and ended; the reset_ui it queued has not run yet and cancel_flag is
\* still set.
C16_Witness ==
    /\ cancel_flag
    /\ \E t \in Threads :
          /\ threads[t].pc = "done"
          /\ \E i \in 1..Len(after_queue) :
                after_queue[i].by = t /\ after_queue[i].fn = "reset_ui"

\* C17 (as claimed): whenever a live timer thread reads target_time it is
\* not None, so no timer thread aborts: a thread that has ended has ended
\* by queuing execute_action or reset_ui.
C17_ThreadNeverAborts ==
    \A t \in Threads : threads[t].pc # "crashed"

\* the scheduler is idle after a completed cancellation: cancel_timer was
\* called on the latest schedule, its box has been closed (reset_ui has
\* run) and no schedule has been started since
IdleAfterCancel ==
    /\ proc = "running"
    /\ ui = "idle"
    /\ ~is_running
    /\ schedules # <<>>
    /\ schedules[Len(schedules)].cancelled

\* C18 (as claimed): once a cancellation has completed and the scheduler is
\* idle, the countdown label stays empty and the buttons stay in their idle
\* configuration: no callback queued by the cancelled schedule's thread is
\* run later so as to show a stale countdown.
C18_IdleStaysClean ==
    IdleAfterCancel
    => /\ countdown_label = NoText
       /\ start_button = "normal"
       /\ cancel_button = "disabled"

====
